---- MODULE Spec2Model ----
(***************************************************************************)
(* Model of droidian/parse-modules-load.                                   *)
(*                                                                         *)
(*   SpecLoad  : LoadKernelModules (src/main.cpp) - directory selection    *)
(*               and the ordered-list-first, parallel-fallback strategy.   *)
(*   SpecProbe : Modprobe::Insmod / Rmmod / ModuleExists                   *)
(*               (src/libmodprobe_ext.cpp) called concurrently on one      *)
(*               loader instance.                                          *)
(*                                                                         *)
(* std::string values are sequences of one-character strings.              *)
(***************************************************************************)
EXTENDS Integers, Sequences, FiniteSets, TLC

\* ------------------------------------------------------------------ bounds
\* Largest number of entries readdir() yields for /lib/modules.
MaxEntries == 3
\* Largest module count a load primitive leaves in Modprobe::GetModuleCount().
MaxCount == 2
\* Largest value std::thread::hardware_concurrency() returns.
MaxHw == 2
\* Number of threads calling into one Modprobe instance.
NumThreads == 2
\* Largest number of Insmod, Rmmod and ModuleExists calls made on the instance.
MaxCalls == 3
\* Number of threads that each insert a module of their own (at most MaxCalls).
NumInserters == 3

\* ------------------------------------------------------------- characters
Digits == <<"0", "1", "2", "3", "4", "5", "6", "7", "8", "9">>

IsDigit(c) == \E i \in 1..10 : Digits[i] = c

DigitVal(c) == (CHOOSE i \in 1..10 : Digits[i] = c) - 1

\* isspace() of the C locale, as far as a directory name can hold it.
IsSpace(c) == c \in {" ", "\t", "\n"}

\* Code of a character, the order std::string's operator< compares by.
Ord(c) ==
    CASE c = " " -> 32
      [] c = "+" -> 43
      [] c = "-" -> 45
      [] c = "." -> 46
      [] IsDigit(c) -> 48 + DigitVal(c)
      [] c = "=" -> 61
      [] c = "_" -> 95
      [] c = "a" -> 97
      [] c = "g" -> 103
      [] c = "i" -> 105
      [] c = "k" -> 107
      [] c = "m" -> 109
      [] c = "p" -> 112
      [] c = "r" -> 114
      [] OTHER -> 127

\* std::string operator< : lexicographic, a proper prefix is smaller.
RECURSIVE StrLess(_, _)
StrLess(a, b) ==
    IF b = <<>> THEN FALSE
    ELSE IF a = <<>> THEN TRUE
    ELSE IF Ord(Head(a)) # Ord(Head(b)) THEN Ord(Head(a)) < Ord(Head(b))
    ELSE StrLess(Tail(a), Tail(b))

\* std::sort of a vector<std::string>: insertion into a sorted sequence.
RECURSIVE SortedInsert(_, _)
SortedInsert(s, x) ==
    IF s = <<>> THEN <<x>>
    ELSE IF StrLess(x, Head(s)) THEN <<x>> \o s
    ELSE <<Head(s)>> \o SortedInsert(Tail(s), x)

\* Variant: the vector is left in enumeration order.
StdSortOmitted(s) == s

RECURSIVE StdSort(_)
StdSort(s) ==
    IF s = <<>> THEN <<>> ELSE SortedInsert(StdSort(Tail(s)), Head(s))

\* operator<< of an unsigned integer: its decimal digits.
RECURSIVE ToDecimal(_)
ToDecimal(n) ==
    IF n < 10 THEN <<Digits[n + 1]>>
    ELSE ToDecimal(n \div 10) \o <<Digits[(n % 10) + 1]>>

\* --------------------------------------------------------------- sscanf
\* Index of the first character of s at or after i that is not white space.
RECURSIVE SkipSpace(_, _)
SkipSpace(s, i) ==
    IF i <= Len(s) /\ IsSpace(s[i]) THEN SkipSpace(s, i + 1) ELSE i

\* Value and end of the run of digits of s starting at i (acc so far).
RECURSIVE ScanDigits(_, _, _)
ScanDigits(s, i, acc) ==
    IF i <= Len(s) /\ IsDigit(s[i])
    THEN ScanDigits(s, i + 1, acc * 10 + DigitVal(s[i]))
    ELSE [val |-> acc, next |-> i]

\* The %d conversion at position i: white space, an optional sign, digits.
\* eof: the input ended before any character of the number.
ScanInt(s, i) ==
    LET j == SkipSpace(s, i)
        signed == j <= Len(s) /\ s[j] \in {"+", "-"}
        k == IF signed THEN j + 1 ELSE j
        d == ScanDigits(s, k, 0)
    IN  IF j > Len(s) THEN [ok |-> FALSE, eof |-> TRUE, val |-> 0, next |-> j]
        ELSE IF d.next = k THEN [ok |-> FALSE, eof |-> FALSE, val |-> 0, next |-> k]
        ELSE [ok |-> TRUE, eof |-> FALSE,
              val |-> IF signed /\ s[j] = "-" THEN 0 - d.val ELSE d.val,
              next |-> d.next]

\* sscanf(s, "%d.%d", &a, &b) with a and b holding a0 and b0 before the call:
\* n is the return value, a and b what the two ints hold afterwards.
Sscanf2(s, a0, b0) ==
    LET first == ScanInt(s, 1)
    IN  IF ~first.ok
        THEN [n |-> IF first.eof THEN -1 ELSE 0, a |-> a0, b |-> b0]
        ELSE IF first.next > Len(s) \/ s[first.next] # "."
        THEN [n |-> 1, a |-> first.val, b |-> b0]
        ELSE LET second == ScanInt(s, first.next + 1)
             IN  IF second.ok
                 THEN [n |-> 2, a |-> first.val, b |-> second.val]
                 ELSE [n |-> 1, a |-> first.val, b |-> b0]

\* ------------------------------------------------------------ main.cpp
MODULE_BASE_DIR == <<"/", "l", "i", "b", "/", "m", "o", "d", "u", "l", "e", "s">>

GetPageSizeSuffix(page_size) ==
    IF page_size <= 4096 THEN <<>>
    ELSE <<"_">> \o ToDecimal(page_size \div 1024) \o <<"k">>

\* Page sizes sysconf(_SC_PAGE_SIZE) reports on the supported kernels.
PageSizes == {4096, 16384}

\* Kernel releases uname() reports in the model.
KernelReleases ==
    { <<"6", ".", "1", ".", "0">>,
      <<"6", ".", "1", ".", "0", "-", "g", "k", "i">> }

\* Names an entry of /lib/modules can have in the model.
EntryNames ==
    { <<"6", ".", "1", ".", "0", "-", "g", "k", "i">>,
      <<"6", ".", "1">>,
      <<"5", ".", "4", ".", "0">>,
      <<"6", ".", "1", ".", "0", "_", "1", "6", "k">>,
      <<"6", ".", "1", ".", "0">>,
      <<".">> }

\* d_type of a directory entry.
EntryTypes == {"DT_DIR", "DT_REG"}

\* The contents /lib/modules can have: a map from entry name to d_type.
BaseDirs ==
    UNION { [S -> EntryTypes] : S \in { T \in SUBSET EntryNames : Cardinality(T) <= MaxEntries } }

VARIABLES
    \* ---- LoadKernelModules
    kernel_release,   \* the running kernel's release string
    page_size,        \* sysconf(_SC_PAGE_SIZE)
    base_dir,         \* the entries of /lib/modules, name -> d_type
    lpc,              \* position in LoadKernelModules
    opened,           \* whether opendir("/lib/modules") gave a handle
    uts_release,      \* uts.release
    major, minor,     \* the ints sscanf fills from uts.release
    unread,           \* entries readdir() has not returned yet
    module_dirs,      \* std::vector<std::string> module_dirs
    next_dir,         \* index of the range-for over module_dirs
    modules_loaded,   \* the int& out parameter
    retval,           \* what LoadKernelModules returns
    attempts,         \* the load primitives invoked so far, in order
    \* ---- Modprobe
    module_loaded_paths_,  \* std::unordered_set<std::string>
    module_loaded_,        \* std::set<std::string> of canonical names
    module_count_,         \* int
    module_loaded_lock_,   \* std::mutex: 0 when free, else the holding thread
    blocklist_enabled,     \* bool
    kernel_modules,        \* canonical names of the modules resident in the kernel
    open_files,            \* descriptors open in the process, by owning thread
    pc,                    \* per thread: position in the call it executes
    loc,                   \* per thread: the locals of the call it executes
    result,                \* the call that returned last, as its caller sees it
    ninserted,             \* how many finit_module calls have returned 0
    started,               \* the threads that have inserted their own module
    ncalls                 \* calls started so far on the instance

loadVars == <<kernel_release, page_size, base_dir, lpc, opened, uts_release, major, minor,
              unread, module_dirs, next_dir, modules_loaded, retval, attempts>>

probeVars == <<module_loaded_paths_, module_loaded_, module_count_, module_loaded_lock_,
               blocklist_enabled, kernel_modules, open_files, pc, loc, result, ninserted, started,
               ncalls>>

vars == <<loadVars, probeVars>>

Threads == 1..NumThreads

\* The locals of a thread that executes no call.
NoLocals == [op |-> "none"]

Inserters == 1..NumInserters

\* The Modprobe instance right after construction, called by the threads T,
\* no call on it in progress.
ProbeIdle(T) ==
    /\ module_loaded_paths_ = {}
    /\ module_loaded_ = {}
    /\ module_count_ = 0
    /\ module_loaded_lock_ = 0
    /\ open_files = {}
    /\ pc = [t \in T |-> "idle"]
    /\ loc = [t \in T |-> NoLocals]
    /\ started = {}
    /\ result = [op |-> "none"]
    /\ ninserted = 0
    /\ ncalls = 0

page_size_suffix == GetPageSizeSuffix(page_size)

release_specific_module_dir == uts_release \o page_size_suffix

InitLoad ==
    /\ kernel_release \in KernelReleases
    /\ page_size \in PageSizes
    /\ base_dir \in BaseDirs
    /\ lpc = "start"
    /\ opened = FALSE
    /\ uts_release = <<>>
    /\ major = 0
    /\ minor = 0
    /\ unread = {}
    /\ module_dirs = <<>>
    /\ next_dir = 1
    /\ modules_loaded = 0
    /\ retval = TRUE
    /\ attempts = <<>>
    /\ ProbeIdle(Threads)
    /\ blocklist_enabled = FALSE
    /\ kernel_modules = {}

\* Variant: the handle opendir returned is not tested.
OpendirFailedNever(ok) == FALSE

\* main.cpp:59. opendir returned a null handle.
OpendirFailed(ok) == ~ok

\* main.cpp:49-62. uname() fills uts (its one error, EFAULT, cannot happen for
\* a buffer on the stack), sscanf parses the release, opendir may fail.
Start ==
    /\ lpc = "start"
    /\ LET r == Sscanf2(kernel_release, 0, 0)
       IN  /\ uts_release' = kernel_release
           /\ major' = r.a
           /\ minor' = r.b
    /\ \E ok \in BOOLEAN :
          /\ opened' = ok
          /\ IF OpendirFailed(ok)
             THEN /\ lpc' = "done"
                  /\ unread' = unread
                  /\ retval' = TRUE
             ELSE /\ lpc' = "readdir"
                  /\ unread' = DOMAIN base_dir
                  /\ retval' = retval
    /\ UNCHANGED <<kernel_release, page_size, base_dir, module_dirs, next_dir,
                   modules_loaded, attempts, probeVars>>

\* main.cpp:71. The entry is the release specific module directory.
IsReleaseSpecific(d_name) == d_name = release_specific_module_dir

\* Variant: emplace_back without the clear().
ReleaseSpecificDirsNoClear(dirs, d_name) == Append(dirs, d_name)

\* main.cpp:74-75. module_dirs after clear() and emplace_back(d_name).
ReleaseSpecificDirs(dirs, d_name) == <<d_name>>

\* main.cpp:82-83. dir_page_size_suffix is GetPageSizeSuffix() of the host
\* again: the entry's name takes no part in it.
PageSizeSuffixMismatch(d_name) ==
    LET dir_page_size_suffix == GetPageSizeSuffix(page_size)
    IN  dir_page_size_suffix # <<>> /\ dir_page_size_suffix # page_size_suffix

\* Variant: the entry's name is not compared with the host's version.
VersionMismatchNever(d_name) == FALSE

\* main.cpp:86-88. The entry's name does not start with the host's major.minor.
VersionMismatch(d_name) ==
    LET r == Sscanf2(d_name, 0, 0)
    IN  r.n # 2 \/ r.a # major \/ r.b # minor

\* main.cpp:67-100. One iteration of the readdir loop on entry d_name; the
\* break of the release specific match falls through to std::sort.
ReadDirEntry ==
    /\ lpc = "readdir"
    /\ \E d_name \in unread :
          /\ unread' = unread \ {d_name}
          /\ IF base_dir[d_name] # "DT_DIR"
             THEN UNCHANGED <<module_dirs, lpc>>
             ELSE IF IsReleaseSpecific(d_name)
             THEN /\ module_dirs' = StdSort(ReleaseSpecificDirs(module_dirs, d_name))
                  /\ lpc' = "load"
             ELSE IF PageSizeSuffixMismatch(d_name)
             THEN UNCHANGED <<module_dirs, lpc>>
             ELSE IF VersionMismatch(d_name)
             THEN UNCHANGED <<module_dirs, lpc>>
             ELSE /\ module_dirs' = Append(module_dirs, d_name)
                  /\ lpc' = lpc
    /\ UNCHANGED <<kernel_release, page_size, base_dir, opened, uts_release, major,
                   minor, next_dir, modules_loaded, retval, attempts, probeVars>>

\* main.cpp:67,100. readdir returns NULL: the loop ends and module_dirs is sorted.
ReadDirEnd ==
    /\ lpc = "readdir"
    /\ unread = {}
    /\ module_dirs' = StdSort(module_dirs)
    /\ lpc' = "load"
    /\ UNCHANGED <<kernel_release, page_size, base_dir, opened, uts_release, major,
                   minor, unread, next_dir, modules_loaded, retval, attempts, probeVars>>

Str_modules_load_recovery ==
    <<"m", "o", "d", "u", "l", "e", "s", ".", "l", "o", "a", "d", ".",
      "r", "e", "c", "o", "v", "e", "r", "y">>

\* Variant: the recovery list is looked for in /lib/modules, whatever the
\* directory.
RecoveryLoadPathOfBase(dir_path) ==
    MODULE_BASE_DIR \o <<"/">> \o Str_modules_load_recovery

\* main.cpp:36-38. The path stat() is called on: the recovery list of the
\* directory.
RecoveryLoadPath(dir_path) == dir_path \o <<"/">> \o Str_modules_load_recovery

\* main.cpp:34-46. stat() returns 0 when modules.load.recovery exists.
GetModuleLoadList(recovery_exists) ==
    IF recovery_exists THEN "modules.load.recovery" ELSE "modules.load"

\* Variant: the iteration ends after the first directory whatever its count.
StopAfterAny(count) == count >= 0

\* Variant: a single loaded module does not end the iteration.
StopAfterSeveral(count) == count > 1

\* main.cpp:108. The directory's count ends the iteration.
StopAfter(count) == count > 0

\* main.cpp:102-112. One iteration of the loop over module_dirs: a Modprobe on
\* the directory, LoadListedModules(), GetModuleCount(), the early return.
\* recovery_exists is what stat() finds at stat_path; a run stats a directory
\* once, so the file system is asked as the run goes.
LoadListed ==
    /\ lpc = "load"
    /\ next_dir <= Len(module_dirs)
    /\ \E recovery_exists \in BOOLEAN, count \in 0..MaxCount, listed_ok \in BOOLEAN :
          LET dir_path == MODULE_BASE_DIR \o <<"/">> \o module_dirs[next_dir]
          IN  /\ attempts' = Append(attempts,
                     [kind |-> "LoadListedModules", dir |-> dir_path,
                      stat_path |-> RecoveryLoadPath(dir_path),
                      recovery_exists |-> recovery_exists,
                      load_file |-> GetModuleLoadList(recovery_exists),
                      threads |-> 0, count |-> count])
              /\ modules_loaded' = count
              /\ IF StopAfter(count)
                 THEN /\ retval' = listed_ok
                      /\ lpc' = "done"
                      /\ next_dir' = next_dir
                 ELSE /\ retval' = retval
                      /\ lpc' = lpc
                      /\ next_dir' = next_dir + 1
    /\ UNCHANGED <<kernel_release, page_size, base_dir, opened, uts_release, major,
                   minor, unread, module_dirs, probeVars>>

\* main.cpp:114-122. The fallback: a Modprobe on /lib/modules and
\* LoadModulesParallel(std::thread::hardware_concurrency()): what
\* hardware_concurrency() returns, 0 when it cannot tell, is the argument.
LoadParallel ==
    /\ lpc = "load"
    /\ next_dir > Len(module_dirs)
    /\ \E recovery_exists \in BOOLEAN, count \in 0..MaxCount, parallel_ok \in BOOLEAN,
          hardware_concurrency \in 0..MaxHw :
          /\ attempts' = Append(attempts,
                 [kind |-> "LoadModulesParallel", dir |-> MODULE_BASE_DIR,
                  stat_path |-> RecoveryLoadPath(MODULE_BASE_DIR),
                  recovery_exists |-> recovery_exists,
                  load_file |-> GetModuleLoadList(recovery_exists),
                  threads |-> hardware_concurrency,
                  hardware_concurrency |-> hardware_concurrency, count |-> count])
          /\ modules_loaded' = count
          /\ retval' = IF count > 0 THEN parallel_ok ELSE TRUE
          /\ lpc' = "done"
    /\ UNCHANGED <<kernel_release, page_size, base_dir, opened, uts_release, major,
                   minor, unread, module_dirs, next_dir, probeVars>>

NextLoad ==
    \/ Start
    \/ ReadDirEntry
    \/ ReadDirEnd
    \/ LoadListed
    \/ LoadParallel

SpecLoad == InitLoad /\ [][NextLoad]_vars

\* --------------------------------------------------- libmodprobe_ext.cpp
\* Module files Insmod is called on; two of them are the same module.
ModulePaths == {"/a/m1.ko", "/b/m1.ko", "/a/m2.ko"}

\* Names Rmmod and ModuleExists are called with.
ModuleNames == {"m1", "m2"}

\* Modprobe::MakeCanonical: the file name without directory and extension.
MakeCanonical(name) ==
    CASE name \in {"/a/m1.ko", "/b/m1.ko", "m1"} -> "m1"
      [] name \in {"/a/m2.ko", "m2"} -> "m2"
      [] name \in {"/a/m3.ko", "m3"} -> "m3"
      [] name \in {"/a/m4.ko", "m4"} -> "m4"
      [] OTHER -> name

Str_param_1 == <<"p", "a", "r", "a", "m", "=", "1">>

Str_param2_2 == <<"p", "a", "r", "a", "m", "2", "=", "2">>

\* module_options_, as the constructor filled it from modules.options.
module_options_ == [n \in {"m1"} |-> Str_param_1]

\* module_blocklist_, as the constructor filled it from modules.blocklist.
module_blocklist_ == {"m2"}

\* Parameters Insmod is called with.
InsmodParameters == {<<>>, Str_param2_2}

\* Variant: the runtime parameters are put before the configured options.
ComposeOptionsReversed(canonical_name, parameters) ==
    LET configured == IF canonical_name \in DOMAIN module_options_
                      THEN module_options_[canonical_name] ELSE <<>>
    IN  IF parameters # <<>> THEN parameters \o <<" ">> \o configured ELSE configured

\* libmodprobe_ext.cpp:72-79. The option string of Insmod.
ComposeOptions(canonical_name, parameters) ==
    LET options == IF canonical_name \in DOMAIN module_options_
                   THEN module_options_[canonical_name] ELSE <<>>
    IN  IF parameters # <<>> THEN options \o <<" ">> \o parameters ELSE options

\* Variant: every return value of finit_module is taken for success.
InsertFailedNever(ret) == FALSE

\* libmodprobe_ext.cpp:83. finit_module did not return 0.
InsertFailed(ret) == ret # 0

\* Variant: every failure of finit_module is taken for an already loaded module.
IsAlreadyLoadedAny(errno) == TRUE

\* Variant: EEXIST is a failure like the others.
IsAlreadyLoadedNever(errno) == FALSE

\* libmodprobe_ext.cpp:84. The module is already loaded.
IsAlreadyLoaded(errno) == errno = "EEXIST"

\* Variant: the lock is taken without waiting for its holder.
CanLockAlways(t) == TRUE

\* libmodprobe_ext.cpp:86,96,110. std::lock_guard can take module_loaded_lock_.
CanLock(t) == module_loaded_lock_ = 0

\* Variant: the destructor does not close the descriptor.
UniqueFdLeak(files, fd) == files

\* libmodprobe_ext.cpp:26-30. ~UniqueFd closes the descriptor it holds.
UniqueFdClose(files, fd) == files \ {fd}

\* The descriptor open() gives thread t.
FdOf(t) == t + 2

\* Thread t returns ret from the call op(arg); outcome names the exit path
\* and errno is what the kernel call, if one was made, left.
Return(t, op, arg, outcome, errno, ret) ==
    result' = [op |-> op, arg |-> arg, outcome |-> outcome, errno |-> errno, ret |-> ret]

\* Variant: the lock is taken when the file is opened and so is held across
\* finit_module.
InsmodOpenOnLocked(t, paths) ==
    /\ pc[t] = "idle"
    /\ ncalls < MaxCalls
    /\ ncalls' = ncalls + 1
    /\ \E path_name \in paths, parameters \in InsmodParameters, open_ok \in BOOLEAN :
          IF open_ok
          THEN /\ module_loaded_lock_ = 0
               /\ module_loaded_lock_' = t
               /\ open_files' = open_files \cup {FdOf(t)}
               /\ loc' = [loc EXCEPT ![t] =
                     [op |-> "Insmod", arg |-> path_name, parameters |-> parameters,
                      fd |-> FdOf(t),
                      canonical_name |-> MakeCanonical(path_name),
                      options |-> ComposeOptions(MakeCanonical(path_name), parameters),
                      ret |-> 0, errno |-> "none", count |-> 0]]
               /\ pc' = [pc EXCEPT ![t] = "finit_module"]
               /\ result' = result
          ELSE /\ module_loaded_lock_' = module_loaded_lock_
               /\ open_files' = open_files
               /\ loc' = loc
               /\ pc' = pc
               /\ Return(t, "Insmod", path_name, "open_failed", "none", FALSE)
    /\ UNCHANGED <<module_loaded_paths_, module_loaded_, module_count_,
                   blocklist_enabled, ninserted, kernel_modules, loadVars>>

\* libmodprobe_ext.cpp:64-81. Insmod opens path_name; on failure it returns
\* false, else it composes the options. ~UniqueFd closes nothing when fd is -1.
InsmodOpenOn(t, paths) ==
    /\ pc[t] = "idle"
    /\ ncalls < MaxCalls
    /\ ncalls' = ncalls + 1
    /\ \E path_name \in paths, parameters \in InsmodParameters, open_ok \in BOOLEAN :
          IF open_ok
          THEN /\ open_files' = open_files \cup {FdOf(t)}
               /\ loc' = [loc EXCEPT ![t] =
                     [op |-> "Insmod", arg |-> path_name, parameters |-> parameters,
                      fd |-> FdOf(t),
                      canonical_name |-> MakeCanonical(path_name),
                      options |-> ComposeOptions(MakeCanonical(path_name), parameters),
                      ret |-> 0, errno |-> "none", count |-> 0]]
               /\ pc' = [pc EXCEPT ![t] = "finit_module"]
               /\ result' = result
          ELSE /\ open_files' = open_files
               /\ loc' = loc
               /\ pc' = pc
               /\ Return(t, "Insmod", path_name, "open_failed", "none", FALSE)
    /\ UNCHANGED <<module_loaded_paths_, module_loaded_, module_count_,
                   module_loaded_lock_, blocklist_enabled, ninserted, kernel_modules,
                   loadVars>>

\* Insmod called by thread t on any of the module files.
InsmodOpen(t) == InsmodOpenOn(t, ModulePaths) /\ UNCHANGED started

\* What finit_module can answer for a module: 0 makes it resident, EEXIST is
\* the answer for a resident module, any other error can come at any time.
FinitOutcomes(canonical_name) ==
    {[ret |-> -1, errno |-> "ENOEXEC"]}
    \cup (IF canonical_name \in kernel_modules
          THEN {[ret |-> -1, errno |-> "EEXIST"]}
          ELSE {[ret |-> 0, errno |-> "none"]})

\* libmodprobe_ext.cpp:82-93. The finit_module syscall, issued without the
\* lock, and the return of the failure that is not EEXIST.
InsmodSyscall(t) ==
    /\ pc[t] = "finit_module"
    /\ \E k \in FinitOutcomes(loc[t].canonical_name) :
          /\ kernel_modules' = IF k.ret = 0
                               THEN kernel_modules \cup {loc[t].canonical_name}
                               ELSE kernel_modules
          /\ ninserted' = IF k.ret = 0 THEN ninserted + 1 ELSE ninserted
          /\ IF InsertFailed(k.ret) /\ ~IsAlreadyLoaded(k.errno)
             THEN /\ Return(t, "Insmod", loc[t].arg, "failed", k.errno, FALSE)
                  /\ open_files' = UniqueFdClose(open_files, loc[t].fd)
                  /\ loc' = [loc EXCEPT ![t] = NoLocals]
                  /\ pc' = [pc EXCEPT ![t] = "idle"]
             ELSE /\ loc' = [loc EXCEPT ![t].ret = k.ret, ![t].errno = k.errno]
                  /\ pc' = [pc EXCEPT ![t] = "lock"]
                  /\ UNCHANGED <<result, open_files>>
    /\ UNCHANGED <<module_loaded_paths_, module_loaded_, module_count_,
                   module_loaded_lock_, blocklist_enabled, started, ncalls, loadVars>>

\* libmodprobe_ext.cpp:86-89 and 96-99. Under the lock both names are
\* registered. The EEXIST branch returns true at once; the other branch has
\* read module_count_ for the increment.
InsmodRegister(t) ==
    /\ pc[t] = "lock"
    /\ loc[t].op = "Insmod"
    /\ CanLock(t)
    /\ module_loaded_paths_' = module_loaded_paths_ \cup {loc[t].arg}
    /\ module_loaded_' = module_loaded_ \cup {loc[t].canonical_name}
    /\ IF InsertFailed(loc[t].ret)
       THEN /\ Return(t, "Insmod", loc[t].arg, "exists", loc[t].errno, TRUE)
            /\ open_files' = UniqueFdClose(open_files, loc[t].fd)
            /\ loc' = [loc EXCEPT ![t] = NoLocals]
            /\ pc' = [pc EXCEPT ![t] = "idle"]
            /\ module_loaded_lock_' = module_loaded_lock_
       ELSE /\ loc' = [loc EXCEPT ![t].count = module_count_]
            /\ pc' = [pc EXCEPT ![t] = "count"]
            /\ module_loaded_lock_' = t
            /\ UNCHANGED <<result, open_files>>
    /\ UNCHANGED <<module_count_, blocklist_enabled, ninserted, started, kernel_modules, ncalls, loadVars>>

\* libmodprobe_ext.cpp:99-100. module_count_++ writes the count back, the
\* guard releases the lock, ~UniqueFd closes the descriptor, Insmod returns true.
InsmodCount(t) ==
    /\ pc[t] = "count"
    /\ module_count_' = loc[t].count + 1
    /\ module_loaded_lock_' = 0
    /\ Return(t, "Insmod", loc[t].arg, "loaded", loc[t].errno, TRUE)
    /\ open_files' = UniqueFdClose(open_files, loc[t].fd)
    /\ loc' = [loc EXCEPT ![t] = NoLocals]
    /\ pc' = [pc EXCEPT ![t] = "idle"]
    /\ UNCHANGED <<module_loaded_paths_, module_loaded_, blocklist_enabled, ninserted, started,
                   kernel_modules, ncalls, loadVars>>

\* What delete_module can answer: 0 only for a resident module, which it
\* removes; an error (ENOENT, EWOULDBLOCK) otherwise or at any time.
DeleteOutcomes(canonical_name) ==
    {-1} \cup (IF canonical_name \in kernel_modules THEN {0} ELSE {})

\* Variant: the return value of delete_module is not looked at.
RemoveFailedNever(ret) == FALSE

\* libmodprobe_ext.cpp:106. delete_module did not return 0.
RemoveFailed(ret) == ret # 0

\* libmodprobe_ext.cpp:103-109. The delete_module syscall, issued without the
\* lock, and the return of its failure.
RmmodSyscall(t) ==
    /\ pc[t] = "idle"
    /\ ncalls < MaxCalls
    /\ ncalls' = ncalls + 1
    /\ \E module_name \in ModuleNames :
       \E ret \in DeleteOutcomes(MakeCanonical(module_name)) :
          /\ kernel_modules' = IF ret = 0
                               THEN kernel_modules \ {MakeCanonical(module_name)}
                               ELSE kernel_modules
          /\ IF RemoveFailed(ret)
             THEN /\ Return(t, "Rmmod", module_name, "failed", "ENOENT", FALSE)
                  /\ UNCHANGED <<loc, pc>>
             ELSE /\ loc' = [loc EXCEPT ![t] =
                        [op |-> "Rmmod", arg |-> module_name,
                         canonical_name |-> MakeCanonical(module_name)]]
                  /\ pc' = [pc EXCEPT ![t] = "lock"]
                  /\ result' = result
    /\ UNCHANGED <<module_loaded_paths_, module_loaded_, module_count_,
                   module_loaded_lock_, blocklist_enabled, ninserted, started, open_files, loadVars>>

\* libmodprobe_ext.cpp:110-112. Under the lock the canonical name is erased.
RmmodErase(t) ==
    /\ pc[t] = "lock"
    /\ loc[t].op = "Rmmod"
    /\ CanLock(t)
    /\ module_loaded_' = module_loaded_ \ {loc[t].canonical_name}
    /\ Return(t, "Rmmod", loc[t].arg, "removed", "none", TRUE)
    /\ loc' = [loc EXCEPT ![t] = NoLocals]
    /\ pc' = [pc EXCEPT ![t] = "idle"]
    /\ UNCHANGED <<module_loaded_paths_, module_count_, module_loaded_lock_,
                   blocklist_enabled, ninserted, started, kernel_modules, open_files, ncalls, loadVars>>

\* The file of a module, the head of its dependency list.
ModuleFile(module_name) == IF module_name = "m1" THEN "/a/m1.ko" ELSE "/a/m2.ko"

\* What stat() can find at the head of the dependency list.
StatResults == {"ENOENT", "S_IFDIR", "S_IFREG"}

\* Variant: the blocklist is never consulted.
IsBlockedNever(module_name) == FALSE

\* libmodprobe_ext.cpp:117. The blocklist is enforced and holds the name.
IsBlocked(module_name) == blocklist_enabled /\ module_name \in module_blocklist_

\* ModuleExists returns ret to thread t; deps_queried tells whether
\* GetDependencies (libmodprobe_ext.cpp:121) was called on the way.
ReturnExists(t, arg, outcome, errno, ret, deps_queried) ==
    result' = [op |-> "ModuleExists", arg |-> arg, outcome |-> outcome, errno |-> errno,
               ret |-> ret, deps_queried |-> deps_queried]

\* libmodprobe_ext.cpp:115-135. ModuleExists; deps is what GetDependencies
\* answers (empty for an alias), st what stat() finds at deps.front().
ModuleExists(t) ==
    /\ pc[t] = "idle"
    /\ ncalls < MaxCalls
    /\ ncalls' = ncalls + 1
    /\ \E module_name \in ModuleNames :
          IF IsBlocked(module_name)
          THEN ReturnExists(t, module_name, "blocklisted", "none", FALSE, FALSE)
          ELSE \E deps \in {<<>>, <<ModuleFile(module_name)>>} :
               IF deps = <<>>
               THEN ReturnExists(t, module_name, "alias", "none", FALSE, TRUE)
               ELSE \E st \in StatResults :
                    IF st = "ENOENT"
                    THEN ReturnExists(t, module_name, "no_access", st, FALSE, TRUE)
                    ELSE IF st # "S_IFREG"
                    THEN ReturnExists(t, module_name, "not_regular", "none", FALSE, TRUE)
                    ELSE ReturnExists(t, module_name, "regular", "none", TRUE, TRUE)
    /\ UNCHANGED <<module_loaded_paths_, module_loaded_, module_count_,
                   module_loaded_lock_, blocklist_enabled, ninserted, started, kernel_modules,
                   open_files, pc, loc, loadVars>>

\* A Modprobe whose constructor has run; modules may be resident already.
InitProbe ==
    /\ ProbeIdle(Threads)
    /\ blocklist_enabled \in BOOLEAN
    /\ kernel_modules \in {{}, {"m1"}}
    /\ kernel_release = <<>>
    /\ page_size = 4096
    /\ base_dir = <<>>
    /\ lpc = "none"
    /\ opened = FALSE
    /\ uts_release = <<>>
    /\ major = 0
    /\ minor = 0
    /\ unread = {}
    /\ module_dirs = <<>>
    /\ next_dir = 1
    /\ modules_loaded = 0
    /\ retval = TRUE
    /\ attempts = <<>>

NextProbe ==
    \E t \in Threads :
        \/ InsmodOpen(t)
        \/ InsmodSyscall(t)
        \/ InsmodRegister(t)
        \/ InsmodCount(t)
        \/ RmmodSyscall(t)
        \/ RmmodErase(t)
        \/ ModuleExists(t)

SpecProbe == InitProbe /\ [][NextProbe]_vars

\* The calls of an instance on which Rmmod is never called.
NextNoRmmod ==
    \E t \in Threads :
        \/ InsmodOpen(t)
        \/ InsmodSyscall(t)
        \/ InsmodRegister(t)
        \/ InsmodCount(t)
        \/ ModuleExists(t)

SpecNoRmmod == InitProbe /\ [][NextNoRmmod]_vars

\* The threads contend for one module: Insmod of /a/m1.ko and Rmmod.
InitContend ==
    /\ InitProbe
    /\ blocklist_enabled = FALSE

\* Insmod called by thread t on the contended module file.
InsmodOpenM1(t) == InsmodOpenOn(t, {"/a/m1.ko"}) /\ UNCHANGED started

NextContend ==
    \E t \in Threads :
        \/ InsmodOpenM1(t)
        \/ InsmodSyscall(t)
        \/ InsmodRegister(t)
        \/ InsmodCount(t)
        \/ RmmodSyscall(t)
        \/ RmmodErase(t)

\* The contending calls under a fair scheduler: a thread that waits for the
\* lock or holds it runs on. A thread in finit_module need not come back,
\* and nothing obliges a caller to make a call.
SpecContendFair ==
    /\ InitContend
    /\ [][NextContend]_vars
    /\ \A t \in Threads :
          /\ WF_vars(InsmodRegister(t))
          /\ WF_vars(InsmodCount(t))
          /\ WF_vars(RmmodErase(t))

\* The module file thread t inserts when each thread inserts its own.
InserterPath(t) ==
    CASE t = 1 -> "/a/m1.ko"
      [] t = 2 -> "/a/m2.ko"
      [] t = 3 -> "/a/m3.ko"
      [] OTHER -> "/a/m4.ko"

\* Thread t calls Insmod once, on its own module file.
InsertOwn(t) ==
    /\ t \notin started
    /\ started' = started \cup {t}
    /\ InsmodOpenOn(t, {InserterPath(t)})

\* A fresh Modprobe on a kernel without modules, called by the inserters.
InitInsmodN ==
    /\ ProbeIdle(Inserters)
    /\ blocklist_enabled = FALSE
    /\ kernel_modules = {}
    /\ kernel_release = <<>>
    /\ page_size = 4096
    /\ base_dir = <<>>
    /\ lpc = "none"
    /\ opened = FALSE
    /\ uts_release = <<>>
    /\ major = 0
    /\ minor = 0
    /\ unread = {}
    /\ module_dirs = <<>>
    /\ next_dir = 1
    /\ modules_loaded = 0
    /\ retval = TRUE
    /\ attempts = <<>>

NextInsmodN ==
    \E t \in Inserters :
        \/ InsertOwn(t)
        \/ InsmodSyscall(t)
        \/ InsmodRegister(t)
        \/ InsmodCount(t)

\* N threads insert N distinct modules concurrently.
SpecInsmodN == InitInsmodN /\ [][NextInsmodN]_vars

\* ------------------------------------------- properties of LoadKernelModules
DirPath(d_name) == MODULE_BASE_DIR \o <<"/">> \o d_name

IsListed(a) == a.kind = "LoadListedModules"

IsParallel(a) == a.kind = "LoadModulesParallel"

ListedAttempts == SelectSeq(attempts, IsListed)

ParallelAttempts == SelectSeq(attempts, IsParallel)

\* The readdir loop is over: module_dirs is the candidate list.
Selected == opened /\ lpc \in {"load", "done"}

Name_6_1_0_gki == <<"6", ".", "1", ".", "0", "-", "g", "k", "i">>

Name_6_1 == <<"6", ".", "1">>

Name_5_4_0 == <<"5", ".", "4", ".", "0">>

Name_6_1_0_16k == <<"6", ".", "1", ".", "0", "_", "1", "6", "k">>

Name_6_1_0 == <<"6", ".", "1", ".", "0">>

\* C1: when the base directory was opened and the ordered-list load of every
\* candidate directory left the count at 0 (also when there is no candidate),
\* LoadKernelModules has invoked LoadListedModules on each candidate in order,
\* then LoadModulesParallel on /lib/modules exactly once, as the last call, and
\* the count it reports is the count that parallel load left; the parallel
\* load is never invoked twice nor followed by another load.
C1_FallbackOnce ==
    /\ Len(ParallelAttempts) <= 1
    /\ \A i \in 1..Len(attempts) : IsParallel(attempts[i]) => i = Len(attempts)
    /\ (/\ lpc = "done"
        /\ opened
        /\ \A i \in 1..Len(attempts) : IsListed(attempts[i]) => attempts[i].count = 0)
       => /\ Len(attempts) = Len(module_dirs) + 1
          /\ \A i \in 1..Len(module_dirs) :
                IsListed(attempts[i]) /\ attempts[i].dir = DirPath(module_dirs[i])
          /\ IsParallel(attempts[Len(attempts)])
          /\ attempts[Len(attempts)].dir = MODULE_BASE_DIR
          /\ modules_loaded = attempts[Len(attempts)].count

\* Two candidates loaded nothing, the fallback ran and loaded nothing either.
C1_Witness ==
    /\ lpc = "done"
    /\ Len(module_dirs) = 2
    /\ Len(attempts) = 3
    /\ \A i \in 1..3 : attempts[i].count = 0
    /\ IsParallel(attempts[3])
    /\ modules_loaded = 0

\* C2: an ordered-list load that leaves a count greater than 0 is the last
\* load invoked: LoadKernelModules has returned, no later candidate and no
\* parallel load was attempted, and the reported count is that directory's.
C2_StopAtFirstLoaded ==
    \A i \in 1..Len(attempts) :
        (IsListed(attempts[i]) /\ attempts[i].count > 0)
        => /\ i = Len(attempts)
           /\ lpc = "done"
           /\ modules_loaded = attempts[i].count
           /\ ParallelAttempts = <<>>

\* The first of two candidates loaded a module; the second was never tried.
C2_Witness ==
    /\ lpc = "done"
    /\ Len(module_dirs) = 2
    /\ Len(attempts) = 1
    /\ IsListed(attempts[1])
    /\ attempts[1].count = 1
    /\ modules_loaded = 1

\* The host and base directory of the directory selection example.
C3_Case ==
    /\ Selected
    /\ uts_release = Name_6_1_0
    /\ page_size_suffix = <<>>
    /\ DOMAIN base_dir = {Name_6_1_0_gki, Name_6_1, Name_5_4_0}
    /\ \A n \in DOMAIN base_dir : base_dir[n] = "DT_DIR"

\* C3 as stated: in that case the candidate list is 6.1.0-gki alone.
C3_AsStated == C3_Case => module_dirs = <<Name_6_1_0_gki>>

\* C3 (amended): for host release 6.1.0, an empty page-size suffix and the
\* directories 6.1.0-gki, 6.1 and 5.4.0, in any enumeration order, the
\* candidate list is 6.1 followed by 6.1.0-gki (no entry is named 6.1.0, so
\* none is release specific; both match 6.1; 5.4.0 does not), and the
\* directories ordered-list load is invoked on are a prefix of that list.
C3_Candidates ==
    C3_Case =>
        /\ module_dirs = <<Name_6_1, Name_6_1_0_gki>>
        /\ Len(ListedAttempts) <= 2
        /\ \A i \in 1..Len(ListedAttempts) :
              ListedAttempts[i].dir = DirPath(module_dirs[i])

\* Both candidates of the example were tried, in order.
C3_Witness ==
    /\ C3_Case
    /\ lpc = "done"
    /\ Len(ListedAttempts) = 2
    /\ ListedAttempts[1].dir = DirPath(Name_6_1)
    /\ ListedAttempts[2].dir = DirPath(Name_6_1_0_gki)

\* t is a suffix of s.
EndsWith(s, t) ==
    Len(t) <= Len(s) /\ SubSeq(s, Len(s) - Len(t) + 1, Len(s)) = t

\* The page-size suffix tokens a directory name can carry (main.cpp:80).
SuffixTokens == { <<"_", "1", "6", "k">>, <<"_", "6", "4", "k">> }

\* The name carries a page-size suffix token other than the host's.
CarriesOtherSuffix(d_name) ==
    \E t \in SuffixTokens : EndsWith(d_name, t) /\ t # page_size_suffix

CarriesNoSuffix(d_name) == \A t \in SuffixTokens : ~EndsWith(d_name, t)

InModuleDirs(d_name) == \E i \in 1..Len(module_dirs) : module_dirs[i] = d_name

\* C4: when no entry is the release specific match, a directory whose name
\* carries a page-size suffix other than the host's is not a candidate, and a
\* directory without a suffix whose name starts with the host's major.minor
\* is one: host suffix "", host 6.1, 6.1.0_16k is out and 6.1.0 is in.
C4_SuffixExclusion ==
    (/\ Selected
     /\ \A n \in DOMAIN base_dir :
           ~(base_dir[n] = "DT_DIR" /\ n = release_specific_module_dir))
    => \A n \in DOMAIN base_dir :
          base_dir[n] = "DT_DIR" =>
             /\ CarriesOtherSuffix(n) => ~InModuleDirs(n)
             /\ (CarriesNoSuffix(n) /\ ~VersionMismatch(n)) => InModuleDirs(n)

\* C5: when /lib/modules holds a directory named <kernel release><page-size
\* suffix>, the candidate list is that directory alone, whatever the other
\* entries and the enumeration order, and ordered-list load is invoked on no
\* other directory.
C5_ReleaseSpecificOnly ==
    LET exact == kernel_release \o GetPageSizeSuffix(page_size)
    IN  (/\ Selected
         /\ exact \in DOMAIN base_dir
         /\ base_dir[exact] = "DT_DIR")
        => /\ module_dirs = <<exact>>
           /\ Len(ListedAttempts) <= 1
           /\ \A i \in 1..Len(ListedAttempts) : ListedAttempts[i].dir = DirPath(exact)

\* The release specific directory was found next to two other directories of
\* the same major.minor, and it alone was tried.
C5_Witness ==
    /\ lpc = "done"
    /\ kernel_release = Name_6_1_0
    /\ page_size = 4096
    /\ DOMAIN base_dir = {Name_6_1_0, Name_6_1, Name_6_1_0_gki}
    /\ \A n \in DOMAIN base_dir : base_dir[n] = "DT_DIR"
    /\ module_dirs = <<Name_6_1_0>>
    /\ Len(ListedAttempts) = 1

\* ---------------------------------------------------- properties of Modprobe
\* No call is in progress on the instance.
Quiescent == \A t \in DOMAIN pc : pc[t] = "idle"

\* Thread t returns from Insmod in this step.
InsmodReturns(t) ==
    /\ pc[t] \in {"finit_module", "lock", "count"}
    /\ loc[t].op = "Insmod"
    /\ pc'[t] = "idle"

\* The registry is the same after the step.
RegistryUnchanged ==
    /\ module_loaded_paths_' = module_loaded_paths_
    /\ module_loaded_' = module_loaded_
    /\ module_count_' = module_count_

\* C6: an Insmod whose finit_module failed with EEXIST returns true with its
\* path in module_loaded_paths_ and its canonical name in module_loaded_, and
\* its return leaves module_count_ as it was (so a second Insmod of a module,
\* answered EEXIST, leaves the count at its value after the first).
C6_AlreadyLoaded ==
    [][\A t \in Threads :
          (InsmodReturns(t) /\ result'.errno = "EEXIST")
          => /\ result'.ret = TRUE
             /\ loc[t].arg \in module_loaded_paths_'
             /\ loc[t].canonical_name \in module_loaded_'
             /\ module_count_' = module_count_]_vars

\* /a/m1.ko was inserted twice: the first call loaded it, the second was
\* answered EEXIST, and the count is still 1.
C6_Witness ==
    /\ Quiescent
    /\ ncalls = 2
    /\ ninserted = 1
    /\ result.op = "Insmod"
    /\ result.outcome = "exists"
    /\ result.ret = TRUE
    /\ module_loaded_paths_ = {"/a/m1.ko"}
    /\ module_loaded_ = {"m1"}
    /\ module_count_ = 1

\* C7: module_count_ never decreases, and the only step that changes it is
\* the return of an Insmod whose finit_module returned 0, which adds exactly
\* 1; an EEXIST or failed Insmod, Rmmod and ModuleExists leave it unchanged.
C7_CountMonotone ==
    [][/\ module_count_' >= module_count_
       /\ module_count_' # module_count_
          => /\ module_count_' = module_count_ + 1
             /\ \E t \in Threads :
                   /\ InsmodReturns(t)
                   /\ loc[t].ret = 0
                   /\ result'.outcome = "loaded"]_vars

\* A module was inserted and then removed: the count stayed at 1.
C7_Witness ==
    /\ Quiescent
    /\ module_count_ = 1
    /\ ninserted = 1
    /\ result.op = "Rmmod"
    /\ result.ret = TRUE
    /\ module_loaded_ = {}

\* C8: once N threads that each called Insmod on a module of their own,
\* starting from an empty registry, have all returned, and every finit_module
\* returned 0, module_count_ is N and module_loaded_ holds exactly the N
\* canonical names.
C8_NoLostUpdate ==
    (Quiescent /\ ninserted = Cardinality(started))
    => /\ module_count_ = Cardinality(started)
       /\ module_loaded_ = { MakeCanonical(InserterPath(t)) : t \in started }
       /\ Cardinality(module_loaded_) = Cardinality(started)
       /\ module_loaded_paths_ = { InserterPath(t) : t \in started }

\* Every inserter has called Insmod and returned, every module was loaded.
C8_Witness ==
    /\ Quiescent
    /\ started = Inserters
    /\ ninserted = NumInserters
    /\ module_count_ = NumInserters

Str_param_1_param2_2 ==
    <<"p", "a", "r", "a", "m", "=", "1", " ", "p", "a", "r", "a", "m", "2", "=", "2">>

\* C9: the option string Insmod hands to finit_module is the configured
\* options of the canonical name (empty if there are none) when the
\* parameters are empty, and else the configured options, one space and the
\* parameters: configured param=1 and parameters param2=2 give
\* "param=1 param2=2".
C9_OptionString ==
    \A t \in Threads :
        (pc[t] = "finit_module")
        => LET name == MakeCanonical(loc[t].arg)
               configured == IF name \in DOMAIN module_options_
                             THEN module_options_[name] ELSE <<>>
           IN  /\ loc[t].parameters = <<>> => loc[t].options = configured
               /\ loc[t].parameters # <<>>
                  => loc[t].options = configured \o <<" ">> \o loc[t].parameters
               /\ (configured = Str_param_1 /\ loc[t].parameters = Str_param2_2)
                  => loc[t].options = Str_param_1_param2_2

\* A thread is about to insert m1 with parameters param2=2.
C9_Witness ==
    \E t \in Threads :
        /\ pc[t] = "finit_module"
        /\ loc[t].canonical_name = "m1"
        /\ loc[t].parameters = Str_param2_2
        /\ loc[t].options = Str_param_1_param2_2

\* What finit_module answered thread t in this step.
FinitErrno(t) == IF pc'[t] = "idle" THEN result'.errno ELSE loc'[t].errno

\* C10: an Insmod whose open fails returns false without reaching
\* finit_module and leaves the registry and the kernel as they were; an
\* Insmod whose finit_module fails otherwise than with EEXIST returns false
\* at once and leaves the registry as it was.
C10_FailureNoMutation ==
    [][/\ (ncalls' # ncalls /\ result'.op = "Insmod" /\ result'.outcome = "open_failed"
           /\ result' # result)
          => /\ result'.ret = FALSE
             /\ pc' = pc
             /\ kernel_modules' = kernel_modules
             /\ ninserted' = ninserted
             /\ RegistryUnchanged
       /\ \A t \in Threads :
             (/\ pc[t] = "finit_module"
              /\ pc'[t] # pc[t]
              /\ FinitErrno(t) \notin {"none", "EEXIST"})
             => /\ pc'[t] = "idle"
                /\ result'.ret = FALSE
                /\ result'.outcome = "failed"
                /\ RegistryUnchanged]_vars

\* The only call so far was an Insmod whose finit_module failed: the
\* registry is empty.
C10_Witness ==
    /\ Quiescent
    /\ ncalls = 1
    /\ result.op = "Insmod"
    /\ result.outcome = "failed"
    /\ result.errno = "ENOEXEC"
    /\ result.ret = FALSE
    /\ module_loaded_paths_ = {}
    /\ module_loaded_ = {}
    /\ module_count_ = 0

\* Thread t enters Rmmod in this step: it returns at once or goes on to
\* the lock.
RmmodCalled(t) ==
    /\ pc[t] = "idle"
    /\ ncalls' # ncalls
    /\ \/ pc' = pc /\ result'.op = "Rmmod"
       \/ pc'[t] = "lock" /\ loc'[t].op = "Rmmod"

\* Thread t returns from a Rmmod whose delete_module succeeded.
RmmodReturns(t) ==
    /\ pc[t] = "lock"
    /\ loc[t].op = "Rmmod"
    /\ pc'[t] = "idle"

\* C11: a Rmmod whose delete_module succeeded removes the canonical name from
\* module_loaded_ and leaves module_loaded_paths_ and module_count_ as they
\* were, so the path an earlier Insmod registered stays; a Rmmod whose
\* delete_module failed (the kernel is as it was) returns false at once and
\* changes none of the three.
C11_RmmodFrame ==
    [][\A t \in Threads :
          /\ RmmodCalled(t)
             => /\ RegistryUnchanged
                /\ kernel_modules' = kernel_modules
                   => /\ pc' = pc
                      /\ result'.ret = FALSE
                      /\ result'.outcome = "failed"
          /\ RmmodReturns(t)
             => /\ result'.ret = TRUE
                /\ module_loaded_' = module_loaded_ \ {MakeCanonical(loc[t].arg)}
                /\ module_loaded_paths_' = module_loaded_paths_
                /\ module_count_' = module_count_]_vars

\* /a/m1.ko was inserted and m1 removed: the canonical name is gone, the
\* path and the count stay.
C11_Witness ==
    /\ Quiescent
    /\ result.op = "Rmmod"
    /\ result.outcome = "removed"
    /\ result.ret = TRUE
    /\ module_loaded_ = {}
    /\ module_loaded_paths_ = {"/a/m1.ko"}
    /\ module_count_ = 1
    /\ "m1" \notin kernel_modules

\* A thread calls ModuleExists in this step; the call returns in the same step.
ModuleExistsCalled ==
    /\ ncalls' # ncalls
    /\ pc' = pc
    /\ result'.op = "ModuleExists"

\* C12: ModuleExists returns false without calling GetDependencies when the
\* blocklist is enforced and holds the name; it returns false for a name that
\* is not blocked and has an empty dependency list; and in every case it
\* leaves module_loaded_paths_, module_loaded_ and module_count_ as they were.
C12_ModuleExistsFrame ==
    [][ModuleExistsCalled
       => /\ RegistryUnchanged
          /\ (blocklist_enabled /\ result'.arg \in module_blocklist_)
             => /\ result'.ret = FALSE
                /\ ~result'.deps_queried
          /\ result'.outcome = "alias"
             => /\ result'.ret = FALSE
                /\ result'.deps_queried
                /\ ~(blocklist_enabled /\ result'.arg \in module_blocklist_)]_vars

\* With the blocklist enforced, ModuleExists of the blocked m2 returned false
\* after an Insmod had loaded a module: the registry still holds it.
C12_Witness ==
    /\ Quiescent
    /\ blocklist_enabled
    /\ result.op = "ModuleExists"
    /\ result.arg = "m2"
    /\ result.outcome = "blocklisted"
    /\ result.ret = FALSE
    /\ module_count_ = 1
    /\ module_loaded_ # {}

\* C13: when /lib/modules cannot be opened, LoadKernelModules calls neither
\* LoadListedModules nor LoadModulesParallel, the count it reports is 0 and
\* it returns true.
C13_UnopenedIsNoOp ==
    ~opened
    => /\ attempts = <<>>
       /\ modules_loaded = 0
       /\ lpc \notin {"readdir", "load"}
       /\ lpc = "done" => retval = TRUE

\* opendir failed on a /lib/modules that holds the release specific
\* directory: LoadKernelModules is done and has loaded nothing.
C13_Witness ==
    /\ lpc = "done"
    /\ ~opened
    /\ kernel_release = Name_6_1_0
    /\ page_size = 4096
    /\ Name_6_1_0 \in DOMAIN base_dir
    /\ base_dir[Name_6_1_0] = "DT_DIR"
    /\ attempts = <<>>
    /\ modules_loaded = 0
    /\ retval = TRUE

\* C14: the number of workers handed to LoadModulesParallel is the hardware
\* concurrency when that is known and 1 when hardware_concurrency() reports 0;
\* it is always at least 1.
C14_WorkerCount ==
    \A i \in 1..Len(attempts) :
        IsParallel(attempts[i])
        => /\ attempts[i].threads >= 1
           /\ attempts[i].threads = IF attempts[i].hardware_concurrency = 0
                                    THEN 1
                                    ELSE attempts[i].hardware_concurrency

\* C15: when Insmod and Rmmod calls on one module race in the kernel, and
\* only these calls change what is resident, then once every call has
\* returned a canonical name is in module_loaded_ only if the module is
\* resident in the kernel, whatever the interleaving.
C15_RegistryImpliesResident ==
    Quiescent => module_loaded_ \subseteq kernel_modules

\* C16: no thread holds module_loaded_lock_ while it is in finit_module or
\* delete_module, so a thread that stays in its kernel call forever stalls
\* only itself: under a fair scheduler every other Insmod or Rmmod that has
\* come back from the kernel makes its registry update and returns.
C16_StuckCallStallsOnlyItself ==
    /\ [](\A t \in Threads :
            /\ pc[t] \in {"idle", "finit_module", "lock"} => module_loaded_lock_ # t
            /\ module_loaded_lock_ = t => pc[t] = "count")
    /\ \A t \in Threads : (pc[t] \in {"lock", "count"}) ~> (pc[t] = "idle")

\* One thread is in finit_module while the other, back from the kernel with
\* a loaded module, holds the lock for its registry update.
C16_Witness ==
    \E t, u \in Threads :
        /\ pc[t] = "finit_module"
        /\ pc[u] = "count"
        /\ module_loaded_lock_ = u

\* The number a string of digits denotes.
RECURSIVE DigitsValue(_)
DigitsValue(s) ==
    IF s = <<>> THEN 0
    ELSE DigitsValue(SubSeq(s, 1, Len(s) - 1)) * 10 + DigitVal(s[Len(s)])

AllDigits(s) == s # <<>> /\ \A k \in 1..Len(s) : IsDigit(s[k])

\* s starts with the decimal numbers a and b with a dot between them, and no
\* digit follows b.
StartsWithMajorMinor(s, a, b) ==
    \E i \in 1..Len(s) : \E j \in (i + 2)..Len(s) :
        /\ AllDigits(SubSeq(s, 1, i))
        /\ DigitsValue(SubSeq(s, 1, i)) = a
        /\ s[i + 1] = "."
        /\ AllDigits(SubSeq(s, i + 2, j))
        /\ DigitsValue(SubSeq(s, i + 2, j)) = b
        /\ j < Len(s) => ~IsDigit(s[j + 1])

\* No entry of /lib/modules is the release specific directory.
NoReleaseSpecificEntry ==
    LET exact == kernel_release \o GetPageSizeSuffix(page_size)
    IN  ~(exact \in DOMAIN base_dir /\ base_dir[exact] = "DT_DIR")

\* C17: when no entry is the release specific match, every candidate is a
\* directory entry whose name starts with two integers equal to the host's
\* major and minor (a name that does not parse and an entry that is not a
\* directory are no candidates), and LoadListedModules is invoked on the
\* candidates in ascending lexicographic order, on each at most once, in
\* whatever order readdir returned the entries.
C17_CandidatesInOrder ==
    (Selected /\ NoReleaseSpecificEntry)
    => /\ StartsWithMajorMinor(kernel_release, major, minor)
       /\ \A i \in 1..Len(module_dirs) :
             /\ module_dirs[i] \in DOMAIN base_dir
             /\ base_dir[module_dirs[i]] = "DT_DIR"
             /\ StartsWithMajorMinor(module_dirs[i], major, minor)
       /\ \A i \in 1..(Len(module_dirs) - 1) : StrLess(module_dirs[i], module_dirs[i + 1])
       /\ Len(ListedAttempts) <= Len(module_dirs)
       /\ \A i \in 1..Len(ListedAttempts) : ListedAttempts[i].dir = DirPath(module_dirs[i])
       /\ \A i, j \in 1..Len(ListedAttempts) :
             ListedAttempts[i].dir = ListedAttempts[j].dir => i = j

\* Next to the file 6.1.0-gki and the directory 5.4.0 the one candidate 6.1
\* was tried and loaded nothing, and the fallback ran.
C17_Witness ==
    /\ lpc = "done"
    /\ kernel_release = Name_6_1_0
    /\ page_size = 4096
    /\ DOMAIN base_dir = {Name_6_1_0_gki, Name_6_1, Name_5_4_0}
    /\ base_dir[Name_6_1_0_gki] = "DT_REG"
    /\ base_dir[Name_6_1] = "DT_DIR"
    /\ base_dir[Name_5_4_0] = "DT_DIR"
    /\ module_dirs = <<Name_6_1>>
    /\ Len(ListedAttempts) = 1
    /\ Len(ParallelAttempts) = 1

\* C18: the load-list file of every attempt, on a candidate directory or on
\* /lib/modules in the fallback, is modules.load.recovery when that file is
\* in the attempted directory itself and modules.load when it is not,
\* whatever the other directories hold.
C18_LoadListPerDirectory ==
    \A i \in 1..Len(attempts) :
        /\ attempts[i].stat_path
              = attempts[i].dir \o <<"/">> \o Str_modules_load_recovery
        /\ attempts[i].recovery_exists => attempts[i].load_file = "modules.load.recovery"
        /\ ~attempts[i].recovery_exists => attempts[i].load_file = "modules.load"

\* A candidate directory with a recovery list loaded nothing, and the
\* fallback used the modules.load of /lib/modules, which has no recovery list.
C18_Witness ==
    /\ lpc = "done"
    /\ Len(attempts) = 2
    /\ IsListed(attempts[1])
    /\ attempts[1].dir = DirPath(Name_6_1)
    /\ attempts[1].recovery_exists
    /\ attempts[1].load_file = "modules.load.recovery"
    /\ IsParallel(attempts[2])
    /\ attempts[2].dir = MODULE_BASE_DIR
    /\ ~attempts[2].recovery_exists
    /\ attempts[2].load_file = "modules.load"

\* C19: the descriptor Insmod opens is closed on every path out of Insmod:
\* a thread that is not inside Insmod holds no open descriptor, and once
\* every call has returned no descriptor is open.
C19_NoDescriptorLeak ==
    /\ \A t \in Threads :
          (pc[t] = "idle" \/ loc[t].op # "Insmod") => FdOf(t) \notin open_files
    /\ Quiescent => open_files = {}

\* Three Insmod calls have returned, one by each path that had opened the
\* file: loaded, already loaded and failed; no descriptor is open.
C19_Witness ==
    /\ Quiescent
    /\ ncalls = 3
    /\ module_count_ = 1
    /\ Cardinality(module_loaded_paths_) = 2
    /\ result.op = "Insmod"
    /\ result.outcome = "failed"
    /\ open_files = {}

\* C20: on an instance whose Rmmod is never called, that starts with an
\* empty registry and whose Insmod calls alone change what is resident, in
\* every state where no call is in progress module_count_ is at most the
\* number of names in module_loaded_, which is at most the number of paths
\* in module_loaded_paths_.
C20_CountBound ==
    Quiescent
    => /\ module_count_ <= Cardinality(module_loaded_)
       /\ Cardinality(module_loaded_) <= Cardinality(module_loaded_paths_)

\* With m1 resident beforehand, the three module files were inserted: one
\* module was loaded, two names and three paths are registered.
C20_Witness ==
    /\ Quiescent
    /\ module_count_ = 1
    /\ Cardinality(module_loaded_) = 2
    /\ Cardinality(module_loaded_paths_) = 3

====
